---------------------------- MODULE Spec2Model ----------------------------
(***************************************************************************)
(* Model of curuam's packet primitives (src/lib.rs): the one's-complement  *)
(* checksum routine, the Ipv4 / Ipv6 / Mac address values with their       *)
(* Handle conversions and Display renderings, and the repr(C) header       *)
(* layouts.                                                                *)
(*                                                                         *)
(* Spec      runs checksum() statement by statement over a byte range.     *)
(* SpecAddr  applies the address conversions and the layout computation.   *)
(***************************************************************************)
EXTENDS Integers, Sequences, FiniteSets, TLC

VARIABLES
    \* ---- memory handed to checksum() ----
    header,     \* the leading bytes of the range, written out
    fill,       \* the value of every byte of the range after those
    len,        \* the length argument
    before,     \* the byte just below the range: <<b>>, or <<>> if unmapped
    endian,     \* the host's byte order: "little" or "big"
    \* ---- checksum() locals ----
    pc,         \* position in checksum()
    sum,        \* i32 accumulator
    left,       \* usize
    i,          \* usize
    ret,        \* the u16 returned
    \* ---- observation of the run ----
    read,       \* offsets (relative to header) dereferenced by the last step
    wrapped,    \* an i32 addition left the i32 range (release build: wrapped)
    \* ---- the caller's compute / store / recompute sequence ----
    field,      \* <<p>>: offset of the two-byte checksum field, <<>>: none
    round,      \* which call of checksum() this is: 1 or 2
    \* ---- address values and layouts ----
    op,         \* the last operation applied
    arg,        \* its input
    obj,        \* the address value held
    out         \* the last output

cvars == <<header, fill, len, before, endian, pc, sum, left, i, ret, read,
           wrapped, field, round>>
avars == <<op, arg, obj, out>>
vars  == <<header, fill, len, before, endian, pc, sum, left, i, ret, read,
           wrapped, field, round, op, arg, obj, out>>

--------------------------------------------------------------------------
(* Bounds of the model *)

\* longest range whose bytes are written out one by one
MaxLen == 4

\* length of the long range of equal bytes
LongLen == 65538

\* byte values the written-out ranges are drawn from
ByteVals == {0, 1, 128, 255}

\* byte value of the long range
LongFill == {255}

\* written-out bytes a long range may start with: none, or one word 0x7FFF
\* (little-endian) that brings the sum of 32768 words 0xFFFF up to i32::MAX
LongLeads == {<<>>, <<255, 127>>}

--------------------------------------------------------------------------
(* Machine arithmetic *)

MaxI32 == 2147483647

MinI32 == -MaxI32 - 1

\* whether the i32 addition a + b, with b >= 0, leaves the i32 range
Overflows(a, b) == a > MaxI32 - b

\* the two's-complement result a + b - 2^32 of an overflowing i32 addition
WrapAdd(a, b) == (a - MaxI32 - 1) + (b - MaxI32 - 1)

\* i32 >> 16 (arithmetic shift)
Shr16(x) == x \div 65536

\* i32 & 0xffff
Low16(x) == x % 65536

--------------------------------------------------------------------------
(* Memory *)

\* the byte at offset off of the range, 0 <= off
ByteAt(off) == IF off < Len(header) THEN header[off + 1] ELSE fill

WordLE(off) == ByteAt(off) + 256 * ByteAt(off + 1)

WordBE(off) == 256 * ByteAt(off) + ByteAt(off + 1)

\* *((words as usize + i) as *const u16): a native 16-bit load
Word(off) == IF endian = "little" THEN WordLE(off) ELSE WordBE(off)

--------------------------------------------------------------------------
(* checksum(header, len) *)

\* let mut sum = 0; let mut left = len; let mut i = 0;
Enter ==
    /\ pc = "call"
    /\ sum' = 0
    /\ left' = len
    /\ i' = 0
    /\ read' = {}
    /\ pc' = "loop"
    /\ UNCHANGED <<header, fill, len, before, endian, ret, wrapped, field, round>>
    /\ UNCHANGED avars

\* while left > 1 { sum += *(words + i) as i32; left -= 2; i += 2 }
LoopStep ==
    /\ pc = "loop"
    /\ left > 1
    /\ read' = {i, i + 1}
    /\ LET w == Word(i) IN
         \/ /\ ~Overflows(sum, w)
            /\ sum' = sum + w
            /\ left' = left - 2
            /\ i' = i + 2
            /\ UNCHANGED <<pc, wrapped>>
         \/ /\ Overflows(sum, w)   \* overflow checks on: the addition panics
            /\ pc' = "panic"
            /\ UNCHANGED <<sum, left, i, wrapped>>
         \/ /\ Overflows(sum, w)   \* overflow checks off: the addition wraps
            /\ sum' = WrapAdd(sum, w)
            /\ wrapped' = TRUE
            /\ left' = left - 2
            /\ i' = i + 2
            /\ UNCHANGED pc
    /\ UNCHANGED <<header, fill, len, before, endian, ret, field, round>>
    /\ UNCHANGED avars

\* the offset the trailing-byte load dereferences: words as usize + i - 1
TrailingOffset == i - 1

\* if left == 1 { sum += *((words + i - 1) as *const u8) as i32 }
Trailing ==
    /\ pc = "loop"
    /\ ~(left > 1)
    /\ \/ /\ left # 1
          /\ pc' = "fold"
          /\ UNCHANGED <<sum, wrapped, read>>
       \/ /\ left = 1
          /\ read' = {TrailingOffset}
          /\ \/ /\ TrailingOffset >= 0
                /\ LET b == ByteAt(TrailingOffset) IN
                     \/ /\ ~Overflows(sum, b)
                        /\ sum' = sum + b
                        /\ pc' = "fold"
                        /\ UNCHANGED wrapped
                     \/ /\ Overflows(sum, b)
                        /\ pc' = "panic"
                        /\ UNCHANGED <<sum, wrapped>>
                     \/ /\ Overflows(sum, b)
                        /\ sum' = WrapAdd(sum, b)
                        /\ wrapped' = TRUE
                        /\ pc' = "fold"
             \/ /\ TrailingOffset < 0      \* a load from below the range
                /\ before # <<>>
                /\ sum' = sum + before[1]
                /\ pc' = "fold"
                /\ UNCHANGED wrapped
             \/ /\ TrailingOffset < 0      \* the page below is not mapped
                /\ before = <<>>
                /\ pc' = "fault"
                /\ UNCHANGED <<sum, wrapped>>
    /\ UNCHANGED <<header, fill, len, before, endian, left, i, ret, field, round>>
    /\ UNCHANGED avars

\* sum = (sum >> 16) + (sum & 0xffff)
Fold1(s) == Shr16(s) + Low16(s)

\* sum += sum >> 16
Fold2(s) == s + Shr16(s)

Fold ==
    /\ pc = "fold"
    /\ sum' = Fold2(Fold1(sum))
    /\ pc' = "ret"
    /\ UNCHANGED <<header, fill, len, before, endian, left, i, ret, read,
                   wrapped, field, round>>
    /\ UNCHANGED avars

ComplementKept(s) == s % 65536

\* (!sum) as u16
Complement16(s) == (-s - 1) % 65536

Return ==
    /\ pc = "ret"
    /\ ret' = Complement16(sum)
    /\ pc' = "done"
    /\ UNCHANGED <<header, fill, len, before, endian, sum, left, i, read,
                   wrapped, field, round>>
    /\ UNCHANGED avars

--------------------------------------------------------------------------
(* The caller: write the checksum into its field, then checksum again *)

\* the two bytes of a native 16-bit store of v
StoreLo(v) == IF endian = "little" THEN v % 256 ELSE v \div 256

StoreHi(v) == IF endian = "little" THEN v \div 256 ELSE v % 256

StoreChecksum ==
    /\ pc = "done"
    /\ round = 1
    /\ field # <<>>
    /\ header' = [header EXCEPT ![field[1] + 1] = StoreLo(ret),
                                ![field[1] + 2] = StoreHi(ret)]
    /\ round' = 2
    /\ pc' = "call"
    /\ UNCHANGED <<fill, len, before, endian, sum, left, i, ret, read,
                   wrapped, field>>
    /\ UNCHANGED avars

--------------------------------------------------------------------------
Headers == UNION {[1..n -> ByteVals] : n \in 0..MaxLen}

\* offsets at which h holds a zeroed two-byte field
ZeroedFields(h) == {p \in 0..(Len(h) - 2) : h[p + 1] = 0 /\ h[p + 2] = 0}

AddrIdle ==
    /\ op = "none"
    /\ arg = <<>>
    /\ obj = <<>>
    /\ out = <<>>

Init ==
    /\ \/ /\ header \in Headers
          /\ fill = 0
          /\ len = Len(header)
          /\ field \in {<<>>} \cup {<<p>> : p \in ZeroedFields(header)}
          /\ before \in {<<>>} \cup {<<b>> : b \in ByteVals}
       \/ /\ header \in LongLeads
          /\ fill \in LongFill
          /\ len \in {LongLen, LongLen + 1}
          /\ field = <<>>
          /\ before \in {<<>>} \cup {<<b>> : b \in LongFill}
    /\ endian \in {"little", "big"}
    /\ pc = "call"
    /\ sum = 0
    /\ left = 0
    /\ i = 0
    /\ ret = 0
    /\ read = {}
    /\ wrapped = FALSE
    /\ round = 1
    /\ AddrIdle

Next ==
    \/ Enter
    \/ LoopStep
    \/ Trailing
    \/ Fold
    \/ Return
    \/ StoreChecksum

Spec == Init /\ [][Next]_vars

--------------------------------------------------------------------------
(* Address values: Ipv4, Ipv6, Mac and their Handle conversions *)

IPV6_LEN == 16

IPV4_LEN == 4

MAC_LEN == 6

\* a u32 as its two 16-bit halves: the value is hi * 2^16 + lo
U32(hi, lo) == [hi |-> hi, lo |-> lo]

\* ((value >> k) & 0xff) as u8, for k in {0, 8, 16, 24}
ShrByte(value, k) ==
    CASE k = 0  -> value.lo % 256
      [] k = 8  -> (value.lo \div 256) % 256
      [] k = 16 -> value.hi % 256
      [] k = 24 -> (value.hi \div 256) % 256

\* (o as u32) << k, for k in {0, 8, 16, 24}: bits shifted past bit 31 are lost
ShlByte(o, k) ==
    CASE k = 0  -> U32(0, o)
      [] k = 8  -> U32(o \div 256, (o * 256) % 65536)
      [] k = 16 -> U32(o % 65536, 0)
      [] k = 24 -> U32((o * 256) % 65536, 0)

\* u32 + u32
AddU32(a, b) ==
    LET lo == a.lo + b.lo
        hi == a.hi + b.hi + (lo \div 65536)
    IN  U32(hi % 65536, lo % 65536)

\* impl Handle<[u8; IPV4_LEN]> for Ipv4
Ipv4From(ip_addr) == [octets |-> ip_addr]

Ipv4ToReversed(self) == [k \in 1..IPV4_LEN |-> self.octets[IPV4_LEN + 1 - k]]

Ipv4To(self) == self.octets

\* impl Handle<[u8; IPV6_LEN]> for Ipv6
Ipv6From(octets) == [octets |-> octets]

Ipv6To(self) == self.octets

\* impl Handle<[u8; MAC_LEN]> for Mac
MacFrom(mac_addr) == [mac_addr |-> mac_addr]

MacTo(self) == self.mac_addr

Ipv4FromU32LittleEndian(value) ==
    Ipv4From(<<ShrByte(value, 0), ShrByte(value, 8),
               ShrByte(value, 16), ShrByte(value, 24)>>)

\* impl Handle<u32> for Ipv4
Ipv4FromU32(value) ==
    LET o1 == ShrByte(value, 0)
        o2 == ShrByte(value, 8)
        o3 == ShrByte(value, 16)
        o4 == ShrByte(value, 24)
    IN  Ipv4From(<<o4, o3, o2, o1>>)

Ipv4ToU32(self) ==
    AddU32(AddU32(AddU32(ShlByte(self.octets[1], 24),
                         ShlByte(self.octets[2], 16)),
                  ShlByte(self.octets[3], 8)),
           ShlByte(self.octets[4], 0))

--------------------------------------------------------------------------
(* Display for Mac: "{:x}:{:x}:{:x}:{:x}:{:x}:{:x}" *)

\* text is a sequence of one-character strings
HexDigit(d) == <<"0", "1", "2", "3", "4", "5", "6", "7",
                 "8", "9", "a", "b", "c", "d", "e", "f">>[d + 1]

LowerHexPadded(n) == <<HexDigit(n \div 16), HexDigit(n % 16)>>

RECURSIVE LowerHex(_)

\* {:x} of a u8: lowercase, no width, no leading zeros
LowerHex(n) ==
    IF n < 16 THEN <<HexDigit(n)>>
    ELSE LowerHex(n \div 16) \o <<HexDigit(n % 16)>>

MacFmt(self) ==
    LowerHex(self.mac_addr[1]) \o <<":">> \o
    LowerHex(self.mac_addr[2]) \o <<":">> \o
    LowerHex(self.mac_addr[3]) \o <<":">> \o
    LowerHex(self.mac_addr[4]) \o <<":">> \o
    LowerHex(self.mac_addr[5]) \o <<":">> \o
    LowerHex(self.mac_addr[6])

--------------------------------------------------------------------------
(* Header layouts under #[repr(C)] *)

\* size and alignment of the field types
U8T == [size |-> 1, align |-> 1]

U16T == [size |-> 2, align |-> 2]

U32T == [size |-> 4, align |-> 4]

ByteArray(n) == [size |-> n, align |-> 1]

F(name, ty) == [name |-> name, size |-> ty.size, align |-> ty.align]

ArpHeaderU32Ip ==
    << F("hardware_type", U16T), F("protocol_type", U16T),
       F("hardware_len", U8T), F("protocol_len", U8T), F("opcode", U16T),
       F("sender_mac", ByteArray(MAC_LEN)), F("sender_ip", U32T),
       F("target_mac", ByteArray(MAC_LEN)), F("target_ip", U32T) >>

ArpHeader ==
    << F("hardware_type", U16T), F("protocol_type", U16T),
       F("hardware_len", U8T), F("protocol_len", U8T), F("opcode", U16T),
       F("sender_mac", ByteArray(MAC_LEN)), F("sender_ip", ByteArray(IPV4_LEN)),
       F("target_mac", ByteArray(MAC_LEN)), F("target_ip", ByteArray(IPV4_LEN)) >>

IcmpHeader ==
    << F("type_", U8T), F("code", U8T), F("check", U16T),
       F("id", U16T), F("sq", U16T) >>

EthHeader ==
    << F("dest", ByteArray(MAC_LEN)), F("source", ByteArray(MAC_LEN)),
       F("proto", U16T) >>

Ipv4Header ==
    << F("verihl", U8T), F("tos", U8T), F("tot_len", U16T), F("id", U16T),
       F("frag", U16T), F("ttl", U8T), F("protocol", U8T), F("check", U16T),
       F("saddr", ByteArray(IPV4_LEN)), F("daddr", ByteArray(IPV4_LEN)) >>

Ipv6Header ==
    << F("verlab", U32T), F("payload", U16T), F("next", U8T), F("hop", U8T),
       F("src", ByteArray(IPV6_LEN)), F("dst", ByteArray(IPV6_LEN)) >>

LayoutNames == {"ArpHeader", "IcmpHeader", "EthHeader", "Ipv4Header", "Ipv6Header"}

Fields(h) ==
    CASE h = "ArpHeader"  -> ArpHeader
      [] h = "IcmpHeader" -> IcmpHeader
      [] h = "EthHeader"  -> EthHeader
      [] h = "Ipv4Header" -> Ipv4Header
      [] h = "Ipv6Header" -> Ipv6Header

\* the least multiple of a that is >= n
AlignUp(n, a) == ((n + a - 1) \div a) * a

RECURSIVE ReprCOffsets(_, _, _)
\* the offsets repr(C) gives fields k.. of fs, the previous field ending at at
ReprCOffsets(fs, k, at) ==
    IF k > Len(fs) THEN <<>>
    ELSE LET off == AlignUp(at, fs[k].align)
         IN  <<off>> \o ReprCOffsets(fs, k + 1, off + fs[k].size)

RECURSIVE MaxAlign(_, _)
MaxAlign(fs, k) ==
    IF k > Len(fs) THEN 1
    ELSE LET m == MaxAlign(fs, k + 1)
         IN  IF fs[k].align > m THEN fs[k].align ELSE m

\* std::mem::size_of of a repr(C) struct
SizeOf(fs) ==
    LET offs == ReprCOffsets(fs, 1, 0)
        end  == IF fs = <<>> THEN 0 ELSE offs[Len(fs)] + fs[Len(fs)].size
    IN  AlignUp(end, MaxAlign(fs, 1))

--------------------------------------------------------------------------
(* Inputs of the address operations *)

AddrBytes == {0, 1, 168, 192, 255}

Ipv4Inputs == [1..IPV4_LEN -> AddrBytes]

Halves == {0, 1, 257, 49320, 65535}

U32Inputs == {U32(h, l) : h \in Halves, l \in Halves}

MacBytes == {0, 15, 16, 255}

MacInputs == [1..MAC_LEN -> MacBytes] \cup {<<0, 1, 2, 3, 4, 5>>}

Ipv6Inputs ==
    {[k \in 1..IPV6_LEN |-> b] : b \in AddrBytes}
        \cup {[k \in 1..IPV6_LEN |-> k - 1], [k \in 1..IPV6_LEN |-> 16 * k - 1]}

--------------------------------------------------------------------------
(* The address operations as steps.  Address values are immutable and     *)
(* independent of one another, so a behaviour follows one value from its  *)
(* construction on.                                                       *)

NoValue == op \in {"none", "size_of"}

CallIpv4From ==
    /\ NoValue
    /\ \E b \in Ipv4Inputs :
           /\ obj' = Ipv4From(b)
           /\ arg' = <<"bytes", b>>
           /\ op' = "Ipv4::from"
           /\ out' = <<>>
           /\ UNCHANGED cvars

CallIpv4FromU32 ==
    /\ NoValue
    /\ \E n \in U32Inputs :
           /\ obj' = Ipv4FromU32(n)
           /\ arg' = <<"u32", n>>
           /\ op' = "Ipv4::from_u32"
           /\ out' = <<>>
           /\ UNCHANGED cvars

IsIpv4 == op \in {"Ipv4::from", "Ipv4::from_u32", "Ipv4::to", "Ipv4::to_u32"}

CallIpv4To ==
    /\ IsIpv4
    /\ out' = Ipv4To(obj)
    /\ op' = "Ipv4::to"
    /\ UNCHANGED <<obj, arg>>
    /\ UNCHANGED cvars

CallIpv4ToU32 ==
    /\ IsIpv4
    /\ out' = Ipv4ToU32(obj)
    /\ op' = "Ipv4::to_u32"
    /\ UNCHANGED <<obj, arg>>
    /\ UNCHANGED cvars

CallIpv6From ==
    /\ NoValue
    /\ \E b \in Ipv6Inputs :
           /\ obj' = Ipv6From(b)
           /\ arg' = <<"bytes", b>>
           /\ op' = "Ipv6::from"
           /\ out' = <<>>
           /\ UNCHANGED cvars

CallIpv6To ==
    /\ op \in {"Ipv6::from", "Ipv6::to"}
    /\ out' = Ipv6To(obj)
    /\ op' = "Ipv6::to"
    /\ UNCHANGED <<obj, arg>>
    /\ UNCHANGED cvars

CallMacFrom ==
    /\ NoValue
    /\ \E b \in MacInputs :
           /\ obj' = MacFrom(b)
           /\ arg' = <<"bytes", b>>
           /\ op' = "Mac::from"
           /\ out' = <<>>
           /\ UNCHANGED cvars

IsMac == op \in {"Mac::from", "Mac::to", "Mac::fmt"}

CallMacTo ==
    /\ IsMac
    /\ out' = MacTo(obj)
    /\ op' = "Mac::to"
    /\ UNCHANGED <<obj, arg>>
    /\ UNCHANGED cvars

CallMacFmt ==
    /\ IsMac
    /\ out' = MacFmt(obj)
    /\ op' = "Mac::fmt"
    /\ UNCHANGED <<obj, arg>>
    /\ UNCHANGED cvars

\* std::mem::size_of::<H>() and the offsets of H's fields
CallSizeOf ==
    /\ NoValue
    /\ \E h \in LayoutNames :
           /\ out' = [size |-> SizeOf(Fields(h)),
                      offsets |-> ReprCOffsets(Fields(h), 1, 0)]
           /\ arg' = <<"layout", h>>
           /\ op' = "size_of"
           /\ obj' = <<>>
           /\ UNCHANGED cvars

InitAddr ==
    /\ header = <<>>
    /\ fill = 0
    /\ len = 0
    /\ field = <<>>
    /\ before = <<>>
    /\ endian = "little"
    /\ pc = "idle"
    /\ sum = 0
    /\ left = 0
    /\ i = 0
    /\ ret = 0
    /\ read = {}
    /\ wrapped = FALSE
    /\ round = 1
    /\ AddrIdle

NextAddr ==
    \/ CallIpv4From
    \/ CallIpv4FromU32
    \/ CallIpv4To
    \/ CallIpv4ToU32
    \/ CallIpv6From
    \/ CallIpv6To
    \/ CallMacFrom
    \/ CallMacTo
    \/ CallMacFmt
    \/ CallSizeOf

SpecAddr == InitAddr /\ [][NextAddr]_vars


--------------------------------------------------------------------------
(* Reference arithmetic for the checksum properties *)

RECURSIVE WordSum(_)
\* the sum of the first n native words of a written-out range
WordSum(n) == IF n = 0 THEN 0 ELSE WordSum(n - 1) + Word(2 * (n - 1))

RECURSIVE MulMod(_, _)
\* (n * w) mod 65535, by doubling
MulMod(n, w) ==
    IF n = 0 THEN 0
    ELSE LET h == MulMod(n \div 2, w)
             d == (h + h) % 65535
         IN  IF n % 2 = 1 THEN (d + w) % 65535 ELSE d

\* the number of leading words that touch the written-out bytes
LeadWords == (Len(header) + 1) \div 2

\* the end-around-carry (one's-complement) sum of the n first native words of
\* the range: 0 if every word is 0, otherwise the representative in 1..65535
\* of the sum modulo 65535
OnesSum(n) ==
    LET lead == IF n < LeadWords THEN n ELSE LeadWords
        r    == (WordSum(lead) + MulMod(n - lead, (257 * fill) % 65535)) % 65535
        zero == /\ \A k \in 1..Len(header) : header[k] = 0
                /\ (n > lead => fill = 0)
    IN  IF zero THEN 0 ELSE IF r = 0 THEN 65535 ELSE r

--------------------------------------------------------------------------
(* Properties of checksum() *)

\* C1: for a range of odd length, the accumulator before folding is the sum
\* of the (len-1)/2 preceding native words plus the byte at offset len-1.
C1_TrailingByteAdded ==
    (pc = "fold" /\ len % 2 = 1 /\ len = Len(header))
        => sum = WordSum(len \div 2) + ByteAt(len - 1)

\* C2 (at word-aligned field offsets): with the checksum field zeroed, the
\* checksum computed, stored in the field as a native word and computed
\* again over the same range, the second result is 0.
C2_SelfCheck ==
    (pc = "done" /\ round = 2 /\ field[1] % 2 = 0) => ret = 0

\* C3: no addition into the i32 accumulator leaves the i32 range, whatever
\* the length: the function neither panics nor wraps.
C3_NeverOverflows ==
    pc # "panic" /\ ~wrapped

\* C4: for a range of even length the result is the 16-bit complement of
\* the end-around-carry sum of its len/2 native words.
C4_EvenLength ==
    (pc = "done" /\ round = 1 /\ len % 2 = 0)
        => ret = 65535 - OnesSum(len \div 2)

\* C9: checksum(header, 0) returns 0xFFFF whatever the memory holds.
C9_EmptyRange ==
    (pc = "done" /\ len = 0) => ret = 65535

C9_Witness ==
    pc = "done" /\ len = 0 /\ before = <<255>> /\ ret = 65535

\* C10: every offset checksum() dereferences lies in 0..len-1.
C10_ReadsInRange ==
    \A off \in read : 0 <= off /\ off < len


--------------------------------------------------------------------------
(* Properties of the address values *)

\* C5: Ipv4 <-> u32 is big-endian and exact both ways: to() is
\* o0*2^24 + o1*2^16 + o2*2^8 + o3 (here as the halves o0*2^8 + o1 and
\* o2*2^8 + o3), to(from(n)) = n, and from(to(o)) has the octets o.
C5_U32BigEndian ==
    op = "Ipv4::to_u32" =>
        /\ out = U32(obj.octets[1] * 256 + obj.octets[2],
                     obj.octets[3] * 256 + obj.octets[4])
        /\ (obj.octets = <<192, 168, 1, 1>> => out = U32(49320, 257))
        /\ (arg[1] = "u32" => out = arg[2])
        /\ Ipv4FromU32(out).octets = obj.octets

C5_Witness ==
    /\ op = "Ipv4::to_u32"
    /\ arg = <<"u32", U32(49320, 257)>>
    /\ obj.octets = <<192, 168, 1, 1>>
    /\ out = U32(49320, 257)

\* C6: from(b).to() = b for Ipv4 (4 bytes), Ipv6 (16 bytes) and Mac
\* (6 bytes): same octets, same order, same length.
C6_ByteRoundTrip ==
    /\ (op = "Ipv4::to" /\ arg[1] = "bytes") => (out = arg[2] /\ Len(out) = 4)
    /\ op = "Ipv6::to" => (out = arg[2] /\ Len(out) = 16)
    /\ op = "Mac::to" => (out = arg[2] /\ Len(out) = 6)

C6_Witness ==
    /\ op = "Ipv4::to"
    /\ arg = <<"bytes", <<192, 168, 1, 1>>>>
    /\ out = <<192, 168, 1, 1>>

\* the widths of the wire-format tables
WireWidths(h) ==
    CASE h = "EthHeader"  -> <<6, 6, 2>>
      [] h = "ArpHeader"  -> <<2, 2, 1, 1, 2, 6, 4, 6, 4>>
      [] h = "IcmpHeader" -> <<1, 1, 2, 2, 2>>
      [] h = "Ipv4Header" -> <<1, 1, 2, 2, 2, 1, 1, 2, 4, 4>>
      [] h = "Ipv6Header" -> <<4, 2, 1, 1, 16, 16>>

WireSize(h) ==
    CASE h = "EthHeader"  -> 14
      [] h = "ArpHeader"  -> 28
      [] h = "IcmpHeader" -> 8
      [] h = "Ipv4Header" -> 20
      [] h = "Ipv6Header" -> 40

RECURSIVE SumTo(_, _)
\* the sum of the first k entries of ws
SumTo(ws, k) == IF k = 0 THEN 0 ELSE SumTo(ws, k - 1) + ws[k]

\* C7: under repr(C) each header has its fields at the sums of the widths
\* before them in the wire-format table, no trailing padding, and the sizes
\* 14, 28, 8, 20 and 40.
C7_NoPadding ==
    op = "size_of" =>
        LET h  == arg[2]
            ws == WireWidths(h)
        IN  /\ Len(out.offsets) = Len(ws)
            /\ \A k \in 1..Len(ws) :
                  /\ Fields(h)[k].size = ws[k]
                  /\ out.offsets[k] = SumTo(ws, k - 1)
            /\ out.size = SumTo(ws, Len(ws))
            /\ out.size = WireSize(h)

C7_Witness ==
    /\ op = "size_of"
    /\ arg[2] = "ArpHeader"
    /\ out.size = 28
    /\ out.offsets[7] = 14

\* the text of one octet: lowercase hex, one digit below 0x10, else two
OctetText(o) ==
    LET digits == <<"0", "1", "2", "3", "4", "5", "6", "7",
                    "8", "9", "a", "b", "c", "d", "e", "f">>
    IN  IF o < 16 THEN <<digits[o + 1]>>
        ELSE <<digits[(o \div 16) + 1], digits[(o % 16) + 1]>>

\* C8: a Mac renders as its six octets in order, each in lowercase hex
\* without zero-padding, joined by single colons.
C8_MacText ==
    op = "Mac::fmt" =>
        LET m == arg[2] IN
        /\ out = OctetText(m[1]) \o <<":">> \o OctetText(m[2]) \o <<":">> \o
                 OctetText(m[3]) \o <<":">> \o OctetText(m[4]) \o <<":">> \o
                 OctetText(m[5]) \o <<":">> \o OctetText(m[6])
        /\ (m = <<0, 1, 2, 3, 4, 5>> =>
                out = <<"0", ":", "1", ":", "2", ":", "3", ":", "4", ":", "5">>)
        /\ (m = <<255, 255, 255, 255, 255, 255>> =>
                out = <<"f", "f", ":", "f", "f", ":", "f", "f", ":",
                        "f", "f", ":", "f", "f", ":", "f", "f">>)

C8_Witness ==
    /\ op = "Mac::fmt"
    /\ arg[2] = <<0, 15, 16, 255, 0, 15>>
    /\ out = <<"0", ":", "f", ":", "1", "0", ":", "f", "f", ":", "0", ":", "f">>

==========================================================================
